---------------------------- MODULE Spec2Model ----------------------------
(***************************************************************************)
(* Model of the pybind11 binding layer of pypowsybl                        *)
(* (src/cpp/src/bindings.cpp): the dataframe / series exchange structures, *)
(* their construction and release, the numpy views over series buffers,    *)
(* the dataframe array handed to createElement, and the call-local         *)
(* load_flow_parameters struct.                                            *)
(*                                                                         *)
(* Native memory is modelled as a heap of cells.  A pointer is the index   *)
(* of a cell; every cell records how it was allocated, how often and by    *)
(* which deallocation it was released, and its contents.  Numeric buffers  *)
(* are byte sequences, so that a view with another element width than the  *)
(* one the buffer was written with reads what the machine would read.      *)
(***************************************************************************)
EXTENDS Integers, Sequences, FiniteSets, TLC

VARIABLES
    heap,       \* native heap: sequence of cells, a pointer is an index
    builds,     \* one record per create_dataframe call, in call order
    views,      \* Python objects returned by Series.data and still referenced
    calls,      \* the create_element calls made: their number and the last one
    params,     \* Python LoadFlowParameters objects, in creation order, each with
                \* the list last given for its countries_to_balance
    endian,     \* byte order of the build: "little" or "big"
    config,     \* countries_to_balance of the process-wide configuration
    gil,        \* holder of the interpreter lock: the calling thread ("caller"),
                \* another Python thread ("other") or nobody ("none")
    native,     \* the binding whose native call is in progress on the calling
                \* thread, or "none"
    work,       \* the binding calls made and the steps another Python thread took
    result      \* what the last binding call returned or raised

vars == <<heap, builds, views, calls, params, endian, config, gil, native, work, result>>

---------------------------------------------------------------------------
(* Bounds of the model *)

MaxRows == 2        \* values per column
MaxSeries == 2      \* columns built over a run of the memory specification
MaxTables == 2      \* create_dataframe calls in the memory specification
MaxViewTables == 1  \* create_dataframe calls in the view specification
MaxViews == 1       \* Series.data results alive at once
MaxArrTables == 1   \* create_dataframe calls in the array specification
MaxCalls == 2       \* create_element calls
MaxArray == 2       \* dataframes passed to one create_element call
MaxParams == 2      \* LoadFlowParameters objects created
MaxSets == 2        \* countries_to_balance assignments over a run
MaxGilCalls == 2    \* calls of long-running bindings
MaxOtherSteps == 2  \* steps of another Python thread
MaxShapeSeries == 2 \* columns built over a run of the table shape specification
MaxSeqTables == 3   \* create_dataframe calls in the table order specification
MaxSeqArray == 3    \* dataframes passed to create_element in that specification

---------------------------------------------------------------------------
(* Native heap *)

Null == 0

\* The value of a field of a `new series[n]` element that was never assigned.
Indeterminate == -1

Cell(kind, by, owner, body) ==
    [kind |-> kind, by |-> by, owner |-> owner, frees |-> 0, freedAt |-> 0,
     freedBy |-> "none", body |-> body]

\* operator new / new[] / strdup: a fresh cell at the end of the heap
Alloc(h, kind, by, owner, body) == Append(h, Cell(kind, by, owner, body))

NextPtr(h) == Len(h) + 1

\* The rank of the next release among the releases of the cells of one owner
Stamp(h, owner) ==
    LET S == {h[p].freedAt : p \in {q \in DOMAIN h : h[q].owner = owner}} \cup {0}
    IN  1 + (CHOOSE m \in S : \A x \in S : x <= m)

\* delete / delete[] / free of pointer p; releasing a null pointer does nothing
Free(h, p, fam) ==
    IF p = Null THEN h
    ELSE [h EXCEPT ![p].frees = @ + 1, ![p].freedAt = Stamp(h, h[p].owner), ![p].freedBy = fam]

Live(h, p) == p \in DOMAIN h /\ h[p].frees = 0

---------------------------------------------------------------------------
(* Element encodings *)

Reverse(s) == [i \in 1..Len(s) |-> s[Len(s) + 1 - i]]

\* The four bytes of a 32-bit two's complement integer, most significant first.
Int32Bytes(v) ==
    LET u == IF v >= 0 THEN v ELSE v + 2147483647 + 1
        top == IF v >= 0 THEN u \div 16777216 ELSE (u \div 16777216) + 128
    IN  <<top, (u \div 65536) % 256, (u \div 256) % 256, u % 256>>

Int32OfBytes(b) ==
    LET low == ((b[1] % 128) * 16777216) + (b[2] * 65536) + (b[3] * 256) + b[4]
    IN  IF b[1] >= 128 THEN (low - 2147483647) - 1 ELSE low

\* An object of several bytes as it lies in memory.
Stored(bytes) == IF endian = "little" THEN Reverse(bytes) ELSE bytes

RECURSIVE Flatten(_)
Flatten(ss) == IF ss = <<>> THEN <<>> ELSE Head(ss) \o Flatten(Tail(ss))

\* A double is represented by its IEEE-754 image, eight bytes, most significant
\* first.
Double_1_05 == <<63, 240, 204, 204, 204, 204, 204, 205>>
Double_0_98 == <<63, 239, 92, 40, 245, 194, 143, 92>>
Double_1_0 == <<63, 240, 0, 0, 0, 0, 0, 0>>
Double_0_0 == <<0, 0, 0, 0, 0, 0, 0, 0>>


DoubleOfInt(v) ==
    CASE v = 0 -> Double_0_0
      [] v = 1 -> Double_1_0
      [] v = 258 -> <<64, 112, 32, 0, 0, 0, 0, 0>>
      [] v = -2 -> <<192, 0, 0, 0, 0, 0, 0, 0>>

---------------------------------------------------------------------------
(* Python values handed to create_dataframe                                *)
(* A column's values are a Python list, here [kind, vals]: the kind of its *)
(* elements ("str", "float", "int", "bool") and the elements.              *)

PyList(kind, vals) == [kind |-> kind, vals |-> vals]

\* py::cast<std::vector<std::string>>: every element must be a str
CastVectorString(pv) ==
    [ok |-> pv.vals = <<>> \/ pv.kind = "str", vec |-> pv.vals]

\* py::cast<std::vector<double>>: floats as they are, ints and bools converted
CastVectorDouble(pv) ==
    [ok |-> pv.vals = <<>> \/ pv.kind \in {"float", "int", "bool"},
     vec |-> [i \in 1..Len(pv.vals) |->
                CASE pv.kind = "float" -> pv.vals[i]
                  [] pv.kind = "int" -> DoubleOfInt(pv.vals[i])
                  [] pv.kind = "bool" -> IF pv.vals[i] THEN Double_1_0 ELSE Double_0_0
                  [] OTHER -> Double_0_0]]

\* py::cast<std::vector<int>>: ints as they are, True and False as 1 and 0
CastVectorInt(pv) ==
    [ok |-> pv.vals = <<>> \/ pv.kind \in {"int", "bool"},
     vec |-> [i \in 1..Len(pv.vals) |->
                CASE pv.kind = "int" -> pv.vals[i]
                  [] pv.kind = "bool" -> IF pv.vals[i] THEN 1 ELSE 0
                  [] OTHER -> 0]]

---------------------------------------------------------------------------
(* Copy helpers of the pypowsybl namespace *)

\* pypowsybl::copyVectorDouble: a flat array of doubles, the values verbatim
copyVectorDouble(h, owner, values) ==
    Alloc(h, "double[]", "copyVectorDouble", owner,
          Flatten([i \in 1..Len(values) |-> Stored(values[i])]))

\* pypowsybl::copyVectorInt: a flat array of 32-bit ints, the values verbatim
copyVectorInt(h, owner, values) ==
    Alloc(h, "int[]", "copyVectorInt", owner,
          Flatten([i \in 1..Len(values) |-> Stored(Int32Bytes(values[i]))]))

RECURSIVE CopyStrings(_, _, _, _)
CopyStrings(h, owner, values, i) ==
    IF i > Len(values) THEN h
    ELSE CopyStrings(Alloc(h, "char[]", "copyVectorStringToCharPtrPtr", owner, values[i]),
                     owner, values, i + 1)

\* pypowsybl::copyVectorStringToCharPtrPtr: an array of pointers to owned copies
\* of the strings; the array is cell NextPtr(h), the strings follow it
copyVectorStringToCharPtrPtr(h, owner, values) ==
    LET arr == NextPtr(h)
        h1 == Alloc(h, "char*[]", "copyVectorStringToCharPtrPtr", owner,
                    [i \in 1..Len(values) |-> arr + i])
    IN  CopyStrings(h1, owner, values, 1)

RECURSIVE FreeStrings(_, _, _, _)
FreeStrings(h, ptr, length, i) ==
    IF i > length THEN h
    ELSE FreeStrings(Free(h, h[ptr].body[i], "deleteCharPtrPtr"), ptr, length, i + 1)

\* pypowsybl::deleteCharPtrPtr: every string, then the pointer array
deleteCharPtrPtr(h, ptr, length) ==
    Free(FreeStrings(h, ptr, length, 1), ptr, "deleteCharPtrPtr")

\* pypowsybl::toVector<std::string>: copies of the strings the array points to
toVectorString(h, data) ==
    [i \in 1..data.length |-> h[h[data.ptr].body[i]].body]

---------------------------------------------------------------------------
(* deleteDataframe *)

\* deleteDataframe with the branch of the int buffers taken for tag 2 only
DeleteBufferIntOnly(h, column) ==
    IF column.type = 0 THEN deleteCharPtrPtr(h, column.data.ptr, column.data.length)
    ELSE IF column.type = 1 THEN Free(h, column.data.ptr, "delete[] double")
    ELSE IF column.type = 2 THEN Free(h, column.data.ptr, "delete[] int")
    ELSE h

DeleteBuffer(h, column) ==
    IF column.type = 0 THEN deleteCharPtrPtr(h, column.data.ptr, column.data.length)
    ELSE IF column.type = 1 THEN Free(h, column.data.ptr, "delete[] double")
    ELSE IF column.type = 2 \/ column.type = 3 THEN Free(h, column.data.ptr, "delete[] int")
    ELSE h

RECURSIVE DeleteColumns(_, _, _, _)
DeleteColumns(h, series, indice, count) ==
    IF indice >= count THEN h
    ELSE LET column == h[series].body[indice + 1]
             h1 == DeleteBuffer(h, column)
             h2 == Free(h1, column.name, "delete[] char")
         IN  DeleteColumns(h2, series, indice + 1, count)

deleteDataframe(h, df) ==
    LET hdr == h[df].body
        h1 == DeleteColumns(h, hdr.series, 0, hdr.series_count)
        h2 == Free(h1, hdr.series, "delete[] series")
    IN  Free(h2, df, "delete dataframe")

---------------------------------------------------------------------------
(* createDataframe *)

\* An element of `new series[columnsNumber]`: no field is assigned yet.
NewSeries ==
    [name |-> Indeterminate, index |-> Indeterminate, type |-> Indeterminate,
     data |-> [length |-> Indeterminate, ptr |-> Indeterminate]]

\* columnsValues[indice] cast to the vector the type tag asks for; indexing the
\* list beyond its end throws as well
CastColumn(type, columnsValues, i) ==
    IF i > Len(columnsValues) THEN [ok |-> FALSE, vec |-> <<>>]
    ELSE IF type = 0 THEN CastVectorString(columnsValues[i])
    ELSE IF type = 1 THEN CastVectorDouble(columnsValues[i])
    ELSE CastVectorInt(columnsValues[i])

CopyColumn(h, owner, type, values) ==
    IF type = 0 THEN copyVectorStringToCharPtrPtr(h, owner, values)
    ELSE IF type = 1 THEN copyVectorDouble(h, owner, values)
    ELSE copyVectorInt(h, owner, values)

\* The loop body taking the row count of every column from the first column
FillColumnRowsOfFirst(s, columns, owner, a, indice) ==
    LET i == indice + 1
        h0 == s.heap
        name == NextPtr(h0)
        h1 == Alloc(h0, "name", "strdup", owner, a.columnsNames[i])
        type == a.columnsTypes[i]
        h2 == [h1 EXCEPT ![columns].body[i].name = name,
                         ![columns].body[i].index = IF a.isIndex[i] THEN 1 ELSE 0,
                         ![columns].body[i].type = type]
        cast == CastColumn(type, a.columnsValues, i)
        first == CastColumn(a.columnsTypes[1], a.columnsValues, 1)
        ptr == NextPtr(h2)
        h3 == CopyColumn(h2, owner, type, cast.vec)
        h4 == [h3 EXCEPT ![columns].body[i].data = [length |-> Len(first.vec), ptr |-> ptr]]
    IN  IF type \in {0, 1, 2, 3}
        THEN IF cast.ok THEN [heap |-> h4, thrown |-> FALSE]
                        ELSE [heap |-> h2, thrown |-> TRUE]
        ELSE [heap |-> h2, thrown |-> FALSE]

\* One turn of the loop of createDataframe, on column `indice` (from 0).
\* s = [heap, thrown]; `columns` points to the series array.
FillColumn(s, columns, owner, a, indice) ==
    LET i == indice + 1
        h0 == s.heap
        name == NextPtr(h0)
        h1 == Alloc(h0, "name", "strdup", owner, a.columnsNames[i])
        type == a.columnsTypes[i]
        h2 == [h1 EXCEPT ![columns].body[i].name = name,
                         ![columns].body[i].index = IF a.isIndex[i] THEN 1 ELSE 0,
                         ![columns].body[i].type = type]
        cast == CastColumn(type, a.columnsValues, i)
        ptr == NextPtr(h2)
        h3 == CopyColumn(h2, owner, type, cast.vec)
        h4 == [h3 EXCEPT ![columns].body[i].data = [length |-> Len(cast.vec), ptr |-> ptr]]
    IN  IF type \in {0, 1, 2, 3}
        THEN IF cast.ok THEN [heap |-> h4, thrown |-> FALSE]
                        ELSE [heap |-> h2, thrown |-> TRUE]
        ELSE [heap |-> h2, thrown |-> FALSE]

RECURSIVE FillColumns(_, _, _, _, _)
FillColumns(s, columns, owner, a, indice) ==
    IF s.thrown \/ indice >= Len(a.columnsNames) THEN s
    ELSE FillColumns(FillColumn(s, columns, owner, a, indice), columns, owner, a, indice + 1)

\* createDataframe(columnsValues, columnsNames, columnsTypes, isIndex), a being
\* the record of the four arguments.  The result is the heap after the call, the
\* dataframe pointer and whether an exception left the function; the exception
\* unwinds through the shared_ptr, whose deleter is deleteDataframe.
createDataframe(h, owner, a) ==
    LET columnsNumber == Len(a.columnsNames)
        df == NextPtr(h)
        h1 == Alloc(h, "dataframe", "new dataframe", owner,
                    [series_count |-> 0, series |-> Null])
        columns == NextPtr(h1)
        h2 == Alloc(h1, "series[]", "new[] series", owner,
                    [i \in 1..columnsNumber |-> NewSeries])
        s == FillColumns([heap |-> h2, thrown |-> FALSE], columns, owner, a, 0)
    IN  IF s.thrown
        THEN [heap |-> deleteDataframe(s.heap, df), df |-> df, thrown |-> TRUE]
        ELSE [heap |-> [s.heap EXCEPT ![df].body =
                            [series_count |-> columnsNumber, series |-> columns]],
              df |-> df, thrown |-> FALSE]


---------------------------------------------------------------------------
(* createDataframeArray and createElement *)

\* createDataframeArray with the loop filling the array from its far end
createDataframeArrayReversed(h, owner, dataframes) ==
    LET dataframeArray == NextPtr(h)
        h1 == Alloc(h, "dataframe_array", "new dataframe_array", owner,
                    [dataframes |-> Null, dataframes_count |-> 0])
        dataframesFinal == NextPtr(h1)
        h2 == Alloc(h1, "dataframe[]", "new[] dataframe", owner,
                    [indice \in 1..Len(dataframes) |->
                        h1[dataframes[Len(dataframes) + 1 - indice]].body])
    IN  [h2 EXCEPT ![dataframeArray].body =
            [dataframes |-> dataframesFinal, dataframes_count |-> Len(dataframes)]]

\* createDataframeArray taking the columns over from the tables: the header
\* of a table copied into the array is left without columns
createDataframeArrayMoving(h, owner, dataframes) ==
    LET dataframeArray == NextPtr(h)
        h1 == Alloc(h, "dataframe_array", "new dataframe_array", owner,
                    [dataframes |-> Null, dataframes_count |-> 0])
        dataframesFinal == NextPtr(h1)
        h2 == Alloc(h1, "dataframe[]", "new[] dataframe", owner,
                    [indice \in 1..Len(dataframes) |-> h1[dataframes[indice]].body])
        h3 == [p \in DOMAIN h2 |->
                 IF \E indice \in 1..Len(dataframes) : dataframes[indice] = p
                 THEN [h2[p] EXCEPT !.body = [series_count |-> 0, series |-> Null]]
                 ELSE h2[p]]
    IN  [h3 EXCEPT ![dataframeArray].body =
            [dataframes |-> dataframesFinal, dataframes_count |-> Len(dataframes)]]

\* createDataframeArray(dataframes): `dataframes` is the vector of dataframe
\* pointers.  The struct is cell NextPtr(h), the array of copied headers the
\* cell after it.
createDataframeArray(h, owner, dataframes) ==
    LET dataframeArray == NextPtr(h)
        h1 == Alloc(h, "dataframe_array", "new dataframe_array", owner,
                    [dataframes |-> Null, dataframes_count |-> 0])
        dataframesFinal == NextPtr(h1)
        h2 == Alloc(h1, "dataframe[]", "new[] dataframe", owner,
                    [indice \in 1..Len(dataframes) |-> h1[dataframes[indice]].body])
    IN  [h2 EXCEPT ![dataframeArray].body =
            [dataframes |-> dataframesFinal, dataframes_count |-> Len(dataframes)]]

\* The deleter without its delete[] of the header array
deleteDataframeArrayStructOnly(h, dataframeToDestroy) ==
    Free(h, dataframeToDestroy, "delete dataframe_array")

\* The deleter releasing, before the header array, the columns and the column
\* array of every table whose header was copied into it
deleteDataframeArrayDeep(h, dataframeToDestroy) ==
    LET arr == h[dataframeToDestroy].body.dataframes
        RECURSIVE Tables(_, _)
        Tables(g, indice) ==
            IF indice > Len(h[arr].body) THEN g
            ELSE LET hdr == h[arr].body[indice]
                     g1 == DeleteColumns(g, hdr.series, 0, hdr.series_count)
                 IN  Tables(Free(g1, hdr.series, "delete[] series"), indice + 1)
        h1 == Free(Tables(h, 1), arr, "delete[] dataframe")
    IN  Free(h1, dataframeToDestroy, "delete dataframe_array")

\* The deleter createDataframeArray gives the shared_ptr
deleteDataframeArray(h, dataframeToDestroy) ==
    LET h1 == Free(h, h[dataframeToDestroy].body.dataframes, "delete[] dataframe")
    IN  Free(h1, dataframeToDestroy, "delete dataframe_array")

\* pypowsybl::createElement(network, dataframeArray.get(), elementType): the
\* native service reads the array and returns, or raises PyPowsyblError
NativeCreateElement(h, dataframeArray, raises) ==
    [heap |-> h, thrown |-> raises,
     seen |-> [count |-> h[dataframeArray].body.dataframes_count,
               tables |-> h[h[dataframeArray].body.dataframes].body]]

\* createElement holding the array by a plain pointer that it deletes after
\* the native call: an exception of the call passes the delete by
createElementNoUnwind(h, owner, dataframes, raises) ==
    LET dataframeArray == NextPtr(h)
        h1 == createDataframeArray(h, owner, dataframes)
        r == NativeCreateElement(h1, dataframeArray, raises)
    IN  [heap |-> IF r.thrown THEN r.heap ELSE deleteDataframeArray(r.heap, dataframeArray),
         dataframeArray |-> dataframeArray, seen |-> r.seen, thrown |-> r.thrown]

\* ::createElement(network, dataframes, elementType): the shared_ptr goes out
\* of scope when the function returns or the exception passes through it
createElement(h, owner, dataframes, raises) ==
    LET dataframeArray == NextPtr(h)
        h1 == createDataframeArray(h, owner, dataframes)
        r == NativeCreateElement(h1, dataframeArray, raises)
    IN  [heap |-> deleteDataframeArray(r.heap, dataframeArray),
         dataframeArray |-> dataframeArray, seen |-> r.seen, thrown |-> r.thrown]

---------------------------------------------------------------------------
(* load_flow_parameters *)

ScalarFields ==
    {"voltage_init_mode", "transformer_voltage_control_on", "no_generator_reactive_limits",
     "phase_shifter_regulation_on", "twt_split_shunt_admittance", "simul_shunt",
     "read_slack_bus", "write_slack_bus", "distributed_slack", "balance_type",
     "dc_use_transformer_ratio", "connected_component_mode"}

\* `new load_flow_parameters()`: every field zero
NewLoadFlowParameters ==
    [scalars |-> [f \in ScalarFields |-> 0], countries_to_balance |-> Null,
     countries_to_balance_count |-> 0]

\* pypowsybl::createLoadFlowParameters(): the native service fills a struct
\* of its own from the process-wide configuration cfg; the struct is cell
\* NextPtr(h), its country array the cell after it
createLoadFlowParameters(h, owner, cfg) ==
    LET h1 == Alloc(h, "load_flow_parameters", "createLoadFlowParameters", owner,
                    [scalars |-> cfg.scalars, countries_to_balance |-> NextPtr(h) + 1,
                     countries_to_balance_count |-> Len(cfg.countries)])
        arr == NextPtr(h1)
        h2 == Alloc(h1, "char*[]", "createLoadFlowParameters", owner,
                    [i \in 1..Len(cfg.countries) |-> arr + i])
        RECURSIVE Strings(_, _)
        Strings(g, i) ==
            IF i > Len(cfg.countries) THEN g
            ELSE Strings(Alloc(g, "char[]", "createLoadFlowParameters", owner,
                               cfg.countries[i]), i + 1)
    IN  Strings(h2, 1)

\* The deleter of the shared_ptr createLoadFlowParameters returns: the native
\* service releases the struct it filled, with its country array and strings
freeLoadFlowParameters(h, ptr) ==
    LET arr == h[ptr].body.countries_to_balance
        RECURSIVE Strings(_, _)
        Strings(g, i) ==
            IF i > h[ptr].body.countries_to_balance_count THEN g
            ELSE Strings(Free(g, h[arr].body[i], "freeLoadFlowParameters"), i + 1)
    IN  Free(Free(Strings(h, 1), arr, "freeLoadFlowParameters"), ptr,
             "freeLoadFlowParameters")

\* std::vector<std::string>(ptr, ptr + count): the strings an array points to
StringsAt(h, ptr, count) == [i \in 1..count |-> h[h[ptr].body[i]].body]

\* initLoadFlowParameters with the country array of config_params assigned
\* instead of copied
initLoadFlowParametersShallow(h, owner, cfgOwner, cfg) ==
    LET parameters == NextPtr(h)
        h1 == Alloc(h, "load_flow_parameters", "new load_flow_parameters", owner,
                    NewLoadFlowParameters)
        config_params == NextPtr(h1)
        h2 == createLoadFlowParameters(h1, cfgOwner, cfg)
        h3 == [h2 EXCEPT ![parameters].body.scalars = h2[config_params].body.scalars,
                         ![parameters].body.countries_to_balance =
                              h2[config_params].body.countries_to_balance,
                         ![parameters].body.countries_to_balance_count =
                              h2[config_params].body.countries_to_balance_count]
    IN  [heap |-> freeLoadFlowParameters(h3, config_params), parameters |-> parameters]

\* initLoadFlowParameters(): the struct of the new LoadFlowParameters object.
\* config_params leaves scope when the function returns.
initLoadFlowParameters(h, owner, cfgOwner, cfg) ==
    LET parameters == NextPtr(h)
        h1 == Alloc(h, "load_flow_parameters", "new load_flow_parameters", owner,
                    NewLoadFlowParameters)
        config_params == NextPtr(h1)
        h2 == createLoadFlowParameters(h1, cfgOwner, cfg)
        h3 == [h2 EXCEPT ![parameters].body.scalars = h2[config_params].body.scalars]
        configCountries == StringsAt(h3, h3[config_params].body.countries_to_balance,
                                     h3[config_params].body.countries_to_balance_count)
        copy == NextPtr(h3)
        h4 == copyVectorStringToCharPtrPtr(h3, owner, configCountries)
        h5 == [h4 EXCEPT ![parameters].body.countries_to_balance = copy,
                         ![parameters].body.countries_to_balance_count =
                              Len(configCountries)]
    IN  [heap |-> freeLoadFlowParameters(h5, config_params), parameters |-> parameters]

\* The deleter initLoadFlowParameters gives the shared_ptr
deleteLoadFlowParameters(h, ptr) ==
    LET h1 == deleteCharPtrPtr(h, h[ptr].body.countries_to_balance,
                               h[ptr].body.countries_to_balance_count)
    IN  Free(h1, ptr, "delete load_flow_parameters")

\* The setter without its deleteCharPtrPtr of the previous list
setCountriesToBalanceNoDelete(h, owner, p, countriesToBalance) ==
    LET copy == NextPtr(h)
        h2 == copyVectorStringToCharPtrPtr(h, owner, countriesToBalance)
    IN  [h2 EXCEPT ![p].body.countries_to_balance = copy,
                   ![p].body.countries_to_balance_count = Len(countriesToBalance)]

\* The setter without the copy: the previous list is released and stays
setCountriesToBalanceNoCopy(h, owner, p, countriesToBalance) ==
    deleteCharPtrPtr(h, h[p].body.countries_to_balance,
                     h[p].body.countries_to_balance_count)

\* The setter of LoadFlowParameters.countries_to_balance on the struct at p
setCountriesToBalance(h, owner, p, countriesToBalance) ==
    LET h1 == deleteCharPtrPtr(h, h[p].body.countries_to_balance,
                               h[p].body.countries_to_balance_count)
        copy == NextPtr(h1)
        h2 == copyVectorStringToCharPtrPtr(h1, owner, countriesToBalance)
    IN  [h2 EXCEPT ![p].body.countries_to_balance = copy,
                   ![p].body.countries_to_balance_count = Len(countriesToBalance)]

\* The getter of LoadFlowParameters.countries_to_balance
getCountriesToBalance(h, p) ==
    StringsAt(h, h[p].body.countries_to_balance, h[p].body.countries_to_balance_count)

---------------------------------------------------------------------------
(* Series.data and seriesAsNumpyArray *)

\* seriesAsNumpyArray<T>: a numpy array of series.data.length elements of T over
\* series.data.ptr.  Its base object is py::cast(series), the Series object of
\* the column; the array holds that object and nothing else: the
\* shared_ptr<dataframe> of the table stays with the Dataframe object alone.
seriesAsNumpyArray(dtype, series) ==
    [kind |-> "array", dtype |-> dtype, length |-> series.data.length,
     ptr |-> series.data.ptr, list |-> <<>>, error |-> "none"]

\* The getter of Series.data with the default label next to case 2
SeriesDataNoDefault(h, s) ==
    CASE s.type = 0 ->
            [kind |-> "list", dtype |-> "str", length |-> s.data.length, ptr |-> Null,
             list |-> toVectorString(h, s.data), error |-> "none"]
      [] s.type = 1 -> seriesAsNumpyArray("float64", s)
      [] s.type = 3 -> seriesAsNumpyArray("bool", s)
      [] OTHER -> seriesAsNumpyArray("int32", s)

\* The getter of Series.data
SeriesData(h, s) ==
    CASE s.type = 0 ->
            [kind |-> "list", dtype |-> "str", length |-> s.data.length, ptr |-> Null,
             list |-> toVectorString(h, s.data), error |-> "none"]
      [] s.type = 1 -> seriesAsNumpyArray("float64", s)
      [] s.type = 2 -> seriesAsNumpyArray("int32", s)
      [] s.type = 3 -> seriesAsNumpyArray("bool", s)
      [] OTHER ->
            [kind |-> "none", dtype |-> "none", length |-> 0, ptr |-> Null,
             list |-> <<>>, error |-> "PyPowsyblError"]

\* Bytes of one element of a numpy dtype
ItemSize(dtype) ==
    CASE dtype = "float64" -> 8
      [] dtype = "int32" -> 4
      [] dtype = "bool" -> 1

\* What numpy reads from the bytes of one element
Decode(dtype, bytes) ==
    CASE dtype = "float64" -> Stored(bytes)
      [] dtype = "int32" -> Int32OfBytes(Stored(bytes))
      [] dtype = "bool" -> bytes[1] # 0

\* The elements a Python reader sees in the object Series.data returned: the
\* copied list, or `length` items of the array's dtype from the start of the
\* buffer it aliases
ViewData(h, v) ==
    IF v.kind = "list" THEN v.list
    ELSE LET w == ItemSize(v.dtype)
         IN  [i \in 1..v.length |->
                Decode(v.dtype, SubSeq(h[v.ptr].body, ((i - 1) * w) + 1, i * w))]

---------------------------------------------------------------------------
(* Inputs *)

TypeTags == {0, 1, 2, 3, 9}

KindOf(type) ==
    CASE type = 0 -> "str"
      [] type = 1 -> "float"
      [] type = 2 -> "int"
      [] type = 3 -> "bool"
      [] OTHER -> "str"

Samples(kind) ==
    CASE kind = "str" -> {"B1", "B2"}
      [] kind = "float" -> {Double_1_05, Double_0_98}
      [] kind = "int" -> {258, -2}
      [] kind = "bool" -> BOOLEAN

SeqsUpTo(S, n) == UNION {[1..k -> S] : k \in 0..n}

Args(values, names, types, index) ==
    [columnsValues |-> values, columnsNames |-> names, columnsTypes |-> types,
     isIndex |-> index]

\* The table of the round-trip scenario: an index column of strings and a
\* column of doubles
ScenarioTable ==
    Args(<<PyList("str", <<"B1", "B2">>), PyList("float", <<Double_1_05, Double_0_98>>)>>,
         <<"id", "v">>, <<0, 1>>, <<TRUE, FALSE>>)

\* One column of every type tag, with every sequence of up to MaxRows sample
\* values of the Python type that goes with the tag
ViewInputs ==
    {ScenarioTable} \cup
    UNION {{Args(<<PyList(KindOf(t), v)>>, <<"v">>, <<t>>, <<FALSE>>) :
                v \in IF t = 9 THEN {<<>>} ELSE SeqsUpTo(Samples(KindOf(t)), MaxRows)} :
           t \in TypeTags}

\* Tables of one column of doubles, of 1, 2 or 3 rows, and the table of the
\* scenario
ArrInputs ==
    {ScenarioTable} \cup
    {Args(<<PyList("float", [i \in 1..r |-> IF i % 2 = 1 THEN Double_1_05 ELSE Double_0_98])>>,
          <<"v">>, <<1>>, <<FALSE>>) : r \in {1, 2, 3}}

\* Tables of 2, 3 and 1 rows with column sets of their own
SeqInputs ==
    {ScenarioTable,
     Args(<<PyList("int", <<258, -2, 258>>)>>, <<"w">>, <<2>>, <<FALSE>>),
     Args(<<PyList("str", <<"B1">>), PyList("bool", <<TRUE>>)>>,
          <<"id", "p">>, <<0, 3>>, <<TRUE, FALSE>>)}

\* Process-wide configurations: the scalars and the countries to balance
Configs ==
    {[scalars |-> [f \in ScalarFields |-> IF f = "distributed_slack" THEN 1 ELSE 0],
      countries |-> c] : c \in {<<>>, <<"FR", "BE">>}}

\* Lists assigned to countries_to_balance
CountryLists == {<<>>, <<"FR">>, <<"BE", "DE">>}

NameOf(i) == IF i = 1 THEN "id" ELSE IF i = 2 THEN "v" ELSE "w"

\* MaxRows values of the Python type that goes with the tag
GoodValues(t) ==
    LET S == Samples(KindOf(t))
        x == CHOOSE e \in S : TRUE
        y == CHOOSE e \in S : e # x
    IN  PyList(KindOf(t), [i \in 1..MaxRows |-> IF i % 2 = 1 THEN x ELSE y])

\* Values that the cast for the tag rejects
BadValues(t) == IF t = 0 THEN PyList("int", <<258>>) ELSE PyList("str", <<"B1">>)

\* Tables of n columns of any tags, each column with values that convert or
\* with values that do not
MemInputs(n) ==
    {Args([i \in 1..n |-> IF good[i] THEN GoodValues(types[i]) ELSE BadValues(types[i])],
          [i \in 1..n |-> NameOf(i)], types, [i \in 1..n |-> i = 1]) :
        types \in [1..n -> TypeTags], good \in [1..n -> BOOLEAN]}

\* n values of the Python type that goes with the tag
ValuesOfLen(t, n) ==
    LET S == Samples(KindOf(t))
        x == CHOOSE e \in S : TRUE
        y == CHOOSE e \in S : e # x
    IN  PyList(KindOf(t), [i \in 1..n |-> IF i % 2 = 1 THEN x ELSE y])

\* Tables of n columns of any tags, every column with a number of values of
\* its own; the string columns are the index columns
ShapeInputs(n) ==
    {Args([i \in 1..n |-> ValuesOfLen(types[i], rows[i])],
          [i \in 1..n |-> NameOf(i)], types, [i \in 1..n |-> types[i] = 0]) :
        types \in [1..n -> TypeTags], rows \in [1..n -> 0..MaxRows]}

\* Names given to columns: empty, and such that two columns can share one
ColumnNames == {"", "id", "v", "w"}

\* Tables of n columns of one double each, under any names
NameInputs(n) ==
    {Args([i \in 1..n |-> PyList("float", <<Double_1_05>>)], names, [i \in 1..n |-> 1],
          [i \in 1..n |-> FALSE]) :
        names \in [1..n -> ColumnNames]}

---------------------------------------------------------------------------
(* Actions: the bindings as Python calls them *)

SeriesBuilt == 
    LET RECURSIVE Sum(_)
        Sum(i) == IF i = 0 THEN 0 ELSE Len(builds[i].a.columnsNames) + Sum(i - 1)
    IN  Sum(Len(builds))

\* m.def("create_dataframe", ::createDataframe): on return pybind11 wraps the
\* shared_ptr in a Dataframe object; on an exception Python gets no object
CreateDataframe(a) ==
    LET owner == [op |-> "create_dataframe", n |-> Len(builds) + 1]
        r == createDataframe(heap, owner, a)
    IN  /\ heap' = r.heap
        /\ builds' = Append(builds, [a |-> a, df |-> r.df, ok |-> ~r.thrown,
                                     alive |-> ~r.thrown])
        /\ result' = [op |-> "create_dataframe", error |-> IF r.thrown THEN "cast_error" ELSE "none",
                      b |-> Len(builds) + 1, c |-> 0,
                      returned |-> IF r.thrown THEN "none" ELSE "Dataframe"]
        /\ UNCHANGED <<views, calls, params, endian, config, gil, native, work>>

\* The last Python reference to a Dataframe object goes: the shared_ptr's
\* deleter, deleteDataframe, runs
DropDataframe(b) ==
    /\ b \in DOMAIN builds
    /\ builds[b].alive
    /\ heap' = deleteDataframe(heap, builds[b].df)
    /\ builds' = [builds EXCEPT ![b].alive = FALSE]
    /\ result' = [op |-> "del_dataframe", error |-> "none", b |-> b, c |-> 0,
                  returned |-> "none"]
    /\ UNCHANGED <<views, calls, params, endian, config, gil, native, work>>

\* The series struct of column c of the table of build b
SeriesOf(h, b, c) == h[h[builds[b].df].body.series].body[c]

\* Series.data on column c of a Dataframe that Python still holds.  The object
\* returned is kept in `views` until Python drops it.
TakeData(b, c) ==
    /\ b \in DOMAIN builds
    /\ builds[b].alive
    /\ c \in 1..heap[builds[b].df].body.series_count
    /\ Len(views) < MaxViews
    /\ LET v == SeriesData(heap, SeriesOf(heap, b, c))
       IN  /\ views' = IF v.error = "none"
                       THEN Append(views, [b |-> b, c |-> c] @@ v)
                       ELSE views
           /\ result' = [op |-> "data", error |-> v.error, b |-> b, c |-> c,
                         returned |-> v.kind]
    /\ UNCHANGED <<heap, builds, calls, params, endian, config, gil, native, work>>

\* Python drops the object a Series.data call returned
DropView(i) ==
    /\ i \in DOMAIN views
    /\ views' = [j \in 1..(Len(views) - 1) |-> IF j < i THEN views[j] ELSE views[j + 1]]
    /\ result' = [op |-> "del_view", error |-> "none", b |-> 0, c |-> 0,
                  returned |-> "none"]
    /\ UNCHANGED <<heap, builds, calls, params, endian, config, gil, native, work>>

\* The cells a call allocated and released again before it returned lie at
\* the end of the heap; their addresses are free for the next allocation.
Transient(h0, h) ==
    IF \A p \in (Len(h0) + 1)..Len(h) : h[p].frees > 0 THEN SubSeq(h, 1, Len(h0)) ELSE h

\* m.def("create_element", ::createElement) with a list of Dataframe objects
\* that Python holds; bs are their builds.  The record kept of the last call
\* holds the cells the call allocated as they were when it ended.
CreateElement(bs, raises) ==
    LET owner == [op |-> "create_element", n |-> calls.n + 1]
        dataframes == [i \in 1..Len(bs) |-> builds[bs[i]].df]
        r == createElement(heap, owner, dataframes, raises)
    IN  /\ calls.n < MaxCalls
        /\ \A i \in 1..Len(bs) : bs[i] \in DOMAIN builds /\ builds[bs[i]].alive
        /\ heap' = Transient(heap, r.heap)
        /\ calls' = [n |-> calls.n + 1,
                     last |-> <<[bs |-> bs, dataframes |-> dataframes,
                                 dataframeArray |-> r.dataframeArray, seen |-> r.seen,
                                 cells |-> SubSeq(r.heap, Len(heap) + 1, Len(r.heap)),
                                 thrown |-> r.thrown]>>]
        /\ result' = [op |-> "create_element",
                      error |-> IF r.thrown THEN "PyPowsyblError" ELSE "none",
                      b |-> 0, c |-> 0, returned |-> "none"]
        /\ UNCHANGED <<builds, views, params, endian, config, gil, native, work>>

LfOwner(k) == [op |-> "LoadFlowParameters", n |-> k]

ConfigOwner(k) == [op |-> "createLoadFlowParameters", n |-> k]

\* LoadFlowParameters(): py::init(&initLoadFlowParameters)
NewParameters ==
    LET k == Len(params) + 1
        r == initLoadFlowParameters(heap, LfOwner(k), ConfigOwner(k), config)
    IN  /\ Len(params) < MaxParams
        /\ heap' = r.heap
        /\ params' = Append(params, [ptr |-> r.parameters, alive |-> TRUE, sets |-> 0,
                                     installed |-> config.countries])
        /\ result' = [op |-> "LoadFlowParameters", error |-> "none", b |-> k, c |-> 0,
                      returned |-> "LoadFlowParameters"]
        /\ UNCHANGED <<builds, views, calls, endian, config, gil, native, work>>

SetsDone ==
    LET RECURSIVE Sum(_)
        Sum(i) == IF i = 0 THEN 0 ELSE params[i].sets + Sum(i - 1)
    IN  Sum(Len(params))

\* parameters.countries_to_balance = values, on an object Python holds
SetCountries(k, values) ==
    /\ k \in DOMAIN params
    /\ params[k].alive
    /\ SetsDone < MaxSets
    /\ heap' = setCountriesToBalance(heap, LfOwner(k), params[k].ptr, values)
    /\ params' = [params EXCEPT ![k].sets = @ + 1, ![k].installed = values]
    /\ result' = [op |-> "set_countries_to_balance", error |-> "none", b |-> k, c |-> 0,
                  returned |-> "none"]
    /\ UNCHANGED <<builds, views, calls, endian, config, gil, native, work>>

\* The last Python reference to a LoadFlowParameters object goes
DropParameters(k) ==
    /\ k \in DOMAIN params
    /\ params[k].alive
    /\ heap' = deleteLoadFlowParameters(heap, params[k].ptr)
    /\ params' = [params EXCEPT ![k].alive = FALSE]
    /\ result' = [op |-> "del_parameters", error |-> "none", b |-> k, c |-> 0,
                  returned |-> "none"]
    /\ UNCHANGED <<builds, views, calls, endian, config, gil, native, work>>

---------------------------------------------------------------------------
(* The interpreter lock around the native calls *)

\* The bindings whose native function computes or does I/O for long: network
\* load, dump and reduction, load flow and its validation, security and
\* sensitivity analysis, reading, updating and creating network elements
LongRunning ==
    {"load_network", "load_network_from_string", "dump_network", "dump_network_to_string",
     "reduce_network", "run_load_flow", "run_load_flow_validation", "run_security_analysis",
     "run_sensitivity_analysis", "create_network_elements_series_array",
     "update_network_elements_with_series", "create_element"}

\* The bindings registered with py::call_guard<py::gil_scoped_release>()
CallGuarded ==
    {"load_network", "load_network_from_string", "dump_network", "dump_network_to_string",
     "reduce_network", "run_load_flow", "run_security_analysis", "run_sensitivity_analysis",
     "create_network_elements_series_array", "update_network_elements_with_series"}

\* Python calls binding f: pybind11 converts the arguments under the lock,
\* constructs the call guard, if f has one, which releases the lock, and
\* enters the native function
EnterNative(f) ==
    /\ native = "none"
    /\ gil = "caller"
    /\ work.calls < MaxGilCalls
    /\ native' = f
    /\ gil' = IF f \in CallGuarded THEN "none" ELSE "caller"
    /\ work' = [work EXCEPT !.calls = @ + 1]
    /\ result' = [op |-> f, error |-> "none", b |-> 0, c |-> 0, returned |-> "pending"]
    /\ UNCHANGED <<heap, builds, views, calls, params, endian, config>>

\* The native function returns or throws: the call guard, if any, is destroyed
\* and takes the lock again, waiting until nobody holds it
LeaveNative(raises) ==
    /\ native # "none"
    /\ IF native \in CallGuarded THEN gil = "none" ELSE gil = "caller"
    /\ gil' = "caller"
    /\ native' = "none"
    /\ result' = [op |-> native, error |-> IF raises THEN "PyPowsyblError" ELSE "none",
                  b |-> 0, c |-> 0, returned |-> "none"]
    /\ UNCHANGED <<heap, builds, views, calls, params, endian, config, work>>

\* Between two bytecodes the calling thread gives the lock up and takes it back
CallerYields ==
    /\ native = "none"
    /\ gil = "caller"
    /\ gil' = "none"
    /\ UNCHANGED <<heap, builds, views, calls, params, endian, config, native, work, result>>

CallerTakes ==
    /\ native = "none"
    /\ gil = "none"
    /\ gil' = "caller"
    /\ UNCHANGED <<heap, builds, views, calls, params, endian, config, native, work, result>>

\* Another Python thread takes the free lock, runs, and gives the lock up
OtherTakes ==
    /\ gil = "none"
    /\ gil' = "other"
    /\ UNCHANGED <<heap, builds, views, calls, params, endian, config, native, work, result>>

OtherRuns ==
    /\ gil = "other"
    /\ work.other < MaxOtherSteps
    /\ work' = [work EXCEPT !.other = @ + 1]
    /\ UNCHANGED <<heap, builds, views, calls, params, endian, config, gil, native, result>>

OtherYields ==
    /\ gil = "other"
    /\ gil' = "none"
    /\ UNCHANGED <<heap, builds, views, calls, params, endian, config, native, work, result>>

---------------------------------------------------------------------------
(* Specifications *)

NoResult == [op |-> "none", error |-> "none", b |-> 0, c |-> 0, returned |-> "none"]

Init ==
    /\ heap = <<>>
    /\ builds = <<>>
    /\ views = <<>>
    /\ calls = [n |-> 0, last |-> <<>>]
    /\ params = <<>>
    /\ endian \in {"little", "big"}
    /\ config = [scalars |-> [f \in ScalarFields |-> 0], countries |-> <<>>]
    /\ gil = "caller"
    /\ native = "none"
    /\ work = [calls |-> 0, other |-> 0]
    /\ result = NoResult

\* Tables are built, their columns read through Series.data, and the tables and
\* the objects read are dropped in any order.
CreateViewTable == \E a \in ViewInputs : Len(builds) < MaxViewTables /\ CreateDataframe(a)

DropSomeDataframe == \E b \in DOMAIN builds : DropDataframe(b)

TakeSomeData == \E b \in DOMAIN builds : \E c \in 1..Len(builds[b].a.columnsNames) : TakeData(b, c)

DropSomeView == \E i \in DOMAIN views : DropView(i)

Next == CreateViewTable \/ TakeSomeData \/ DropSomeView \/ DropSomeDataframe

Spec == Init /\ [][Next]_vars

\* Tables of several columns are built, successfully or not, and released.
CreateMemTable ==
    \E n \in 0..(MaxSeries - SeriesBuilt) : \E a \in MemInputs(n) :
        Len(builds) < MaxTables /\ CreateDataframe(a)

NextMem == CreateMemTable \/ DropSomeDataframe

SpecMem == Init /\ [][NextMem]_vars


\* Tables are built, passed in lists to create_element, and dropped.
CreateArrTable == \E a \in ArrInputs : Len(builds) < MaxArrTables /\ CreateDataframe(a)

CreateSomeElement ==
    \E bs \in SeqsUpTo(DOMAIN builds, MaxArray) : \E raises \in BOOLEAN :
        CreateElement(bs, raises)

NextArr == CreateArrTable \/ CreateSomeElement \/ DropSomeDataframe

SpecArr == Init /\ [][NextArr]_vars


\* Several tables of different shapes are built and then passed together, in
\* any order and number, to create_element; the call ends the run.
CreateSeqTable ==
    \E a \in SeqInputs :
        calls.n = 0 /\ Len(builds) < MaxSeqTables /\ CreateDataframe(a)

CreateSeqElement ==
    \E bs \in SeqsUpTo(DOMAIN builds, MaxSeqArray) : \E raises \in BOOLEAN :
        calls.n = 0 /\ CreateElement(bs, raises)

NextSeq == CreateSeqTable \/ CreateSeqElement

SpecSeq == Init /\ [][NextSeq]_vars


\* The calling thread calls long-running bindings while another Python thread
\* waits for the interpreter lock.
CallSomeBinding == \E f \in LongRunning : EnterNative(f)

ReturnFromNative == \E raises \in BOOLEAN : LeaveNative(raises)

NextGil ==
    \/ CallSomeBinding
    \/ ReturnFromNative
    \/ CallerYields
    \/ CallerTakes
    \/ OtherTakes
    \/ OtherRuns
    \/ OtherYields

SpecGil == Init /\ [][NextGil]_vars


\* Tables are built from columns whose numbers of values differ.
CreateShapeTable ==
    \E n \in 1..(MaxShapeSeries - SeriesBuilt) : \E a \in ShapeInputs(n) :
        CreateDataframe(a)

NextShape == CreateShapeTable

SpecShape == Init /\ [][NextShape]_vars


\* Tables are built under any column names, and dropped.
CreateNameTable ==
    \E n \in 1..(MaxShapeSeries - SeriesBuilt) : \E a \in NameInputs(n) :
        CreateDataframe(a)

NextNames == CreateNameTable \/ DropSomeDataframe

SpecNames == Init /\ [][NextNames]_vars


\* LoadFlowParameters objects are created from the configuration, their
\* countries_to_balance assigned, and the objects dropped.
InitLf ==
    /\ heap = <<>>
    /\ builds = <<>>
    /\ views = <<>>
    /\ calls = [n |-> 0, last |-> <<>>]
    /\ params = <<>>
    /\ endian \in {"little", "big"}
    /\ config \in Configs
    /\ gil = "caller"
    /\ native = "none"
    /\ work = [calls |-> 0, other |-> 0]
    /\ result = NoResult

SetSomeCountries == \E k \in DOMAIN params : \E values \in CountryLists : SetCountries(k, values)

DropSomeParameters == \E k \in DOMAIN params : DropParameters(k)

NextLf == NewParameters \/ SetSomeCountries \/ DropSomeParameters

SpecLf == InitLf /\ [][NextLf]_vars

---------------------------------------------------------------------------
(* Properties *)

Supported == {0, 1, 2, 3}

\* The cells allocated by the create_dataframe call of build b
CellsOf(b) == {p \in DOMAIN heap : heap[p].owner = [op |-> "create_dataframe", n |-> b]}

\* The values create_dataframe was given for the column a view is over
InputOf(v) == builds[v.b].a.columnsValues[v.c].vals

\* C1: for every type tag 0..3 and every value sequence, what Python reads in
\* the object Series.data returns for a column built by create_dataframe is
\* the sequence the column was built from, BOOL columns of more than one row
\* included.
C1_RoundTrip ==
    \A i \in DOMAIN views :
        (views[i].kind = "list" \/ Live(heap, views[i].ptr))
            => ViewData(heap, views[i]) = InputOf(views[i])

C5_DataUnsupportedType ==
    result.op = "data" =>
        LET t == SeriesOf(heap, result.b, result.c).type
        IN  /\ result.error \in {"none", "PyPowsyblError"}
            /\ (result.error = "PyPowsyblError") <=> (t \notin Supported)
            /\ result.error = "PyPowsyblError" => result.returned = "none"
            /\ result.error = "none" => result.returned \in {"array", "list"}

C5_Witness ==
    /\ result.op = "data"
    /\ result.error = "PyPowsyblError"
    /\ SeriesOf(heap, result.b, result.c).type = 9

\* The pointers deleteDataframe is to release for build b, in the order it is
\* to release them: per column the buffer (for strings every string, then the
\* pointer array) and the name, then the series array, then the header.
ReleaseOrder(b) ==
    LET df == builds[b].df
        series == heap[df].body.series
        cols == heap[series].body
        buffer(i) ==
            IF cols[i].type = 0
            THEN [k \in 1..cols[i].data.length |-> heap[cols[i].data.ptr].body[k]]
                    \o <<cols[i].data.ptr>>
            ELSE IF cols[i].type \in {1, 2, 3} THEN <<cols[i].data.ptr>>
            ELSE <<>>
    IN  Flatten([i \in 1..Len(cols) |-> buffer(i) \o <<cols[i].name>>]) \o <<series, df>>

\* C3: releasing a table that create_dataframe returned frees, column by
\* column in order, the buffer as its tag says and the name, then the series
\* array and the header; every cell allocated for the table is then freed
\* exactly once, and before the release none of them is freed.
C3_ReleaseFreesAllOnce ==
    \A b \in DOMAIN builds :
        builds[b].ok =>
            IF builds[b].alive
            THEN \A p \in CellsOf(b) : heap[p].frees = 0
            ELSE LET order == ReleaseOrder(b)
                 IN  /\ {order[k] : k \in 1..Len(order)} = CellsOf(b)
                     /\ \A k \in 1..Len(order) :
                            heap[order[k]].frees = 1 /\ heap[order[k]].freedAt = k

C3_Witness ==
    \E b \in DOMAIN builds :
        /\ builds[b].ok
        /\ ~builds[b].alive
        /\ builds[b].a.columnsTypes = <<0, 3>>
        /\ \A p \in CellsOf(b) : heap[p].frees = 1

\* C4: a column spec with a type tag outside 0..3 makes create_dataframe fail
\* with nothing left allocated; no table returned holds such a column.
C4_UnsupportedTagRejected ==
    \A b \in DOMAIN builds :
        (\E i \in 1..Len(builds[b].a.columnsTypes) :
            builds[b].a.columnsTypes[i] \notin Supported)
            => ~builds[b].ok /\ \A p \in CellsOf(b) : ~Live(heap, p)

\* C6: when create_dataframe fails, every cell allocated by the call (names,
\* buffers, strings, series array, header) has been released when the error
\* reaches Python.
C6_FailedBuildLeavesNothing ==
    \A b \in DOMAIN builds :
        ~builds[b].ok => \A p \in CellsOf(b) : heap[p].frees = 1

\* C10: create_element with an empty list hands the native service a
\* dataframe_array of count 0, and releasing the array frees its header array
\* and its struct, each once, and nothing else.
C10_EmptyArray ==
    [][(calls'.n = calls.n + 1 /\ calls'.last[1].bs = <<>>) =>
            LET c == calls'.last[1]
            IN  /\ c.seen.count = 0
                /\ c.seen.tables = <<>>
                /\ Len(c.cells) = 2
                /\ c.cells[1].kind = "dataframe_array" /\ c.cells[1].frees = 1
                /\ c.cells[2].kind = "dataframe[]" /\ c.cells[2].frees = 1
                /\ heap' = heap]_vars

C10_Witness ==
    /\ calls.n > 0
    /\ calls.last[1].bs = <<>>
    /\ calls.last[1].seen.count = 0
    /\ \A k \in 1..2 : calls.last[1].cells[k].frees = 1


\* The cells the countries_to_balance field of the struct at p points to: the
\* pointer array and the strings
Reach(h, p) ==
    LET arr == h[p].body.countries_to_balance
    IN  IF arr \in DOMAIN h
        THEN {arr} \cup {h[arr].body[i] : i \in 1..Len(h[arr].body)}
        ELSE {}

\* The cells of the structs the native service filled from the configuration
ConfigCells == {p \in DOMAIN heap : heap[p].owner.op = "createLoadFlowParameters"}

\* C7: a LoadFlowParameters struct never points into the storage of the
\* configuration struct it was copied from, and an assignment to its
\* countries_to_balance changes neither the configuration nor that storage.
C7_IsolatedFromConfig ==
    /\ [](\A k \in DOMAIN params :
            params[k].alive => Reach(heap, params[k].ptr) \cap ConfigCells = {})
    /\ [][result'.op = "set_countries_to_balance" =>
            /\ config' = config
            /\ \A p \in ConfigCells : heap'[p] = heap[p]]_vars

C7_Witness ==
    \E k \in DOMAIN params :
        /\ params[k].alive
        /\ params[k].sets > 0
        /\ config.countries = <<"FR", "BE">>
        /\ getCountriesToBalance(heap, params[k].ptr) = <<"BE", "DE">>

\* C8: two LoadFlowParameters objects share no list storage, each one's list
\* cells are its own and live while it lives, and a step on one object (an
\* assignment, its destruction) changes neither the list of another nor the
\* cells that hold it.
C8_ObjectsIndependent ==
    /\ [](\A k \in DOMAIN params :
            params[k].alive =>
                /\ \A p \in Reach(heap, params[k].ptr) :
                        Live(heap, p) /\ heap[p].owner = LfOwner(k)
                /\ \A j \in DOMAIN params :
                        (j # k /\ params[j].alive) =>
                            Reach(heap, params[j].ptr) \cap Reach(heap, params[k].ptr) = {})
    /\ [][\A k \in DOMAIN params :
            (params[k].alive /\ params'[k] = params[k]) =>
                /\ getCountriesToBalance(heap', params[k].ptr)
                        = getCountriesToBalance(heap, params[k].ptr)
                /\ \A p \in Reach(heap, params[k].ptr) \cup {params[k].ptr} :
                        heap'[p] = heap[p]]_vars

C8_Witness ==
    /\ Len(params) = 2
    /\ ~params[1].alive
    /\ params[1].sets > 0
    /\ params[2].alive
    /\ config.countries = <<"FR", "BE">>
    /\ getCountriesToBalance(heap, params[2].ptr) = <<"FR", "BE">>
    /\ \A p \in Reach(heap, params[2].ptr) : Live(heap, p)

\* C9: at any time the struct of a live object holds exactly one list
\* allocation, a copy of the list last assigned with the count of its entries,
\* and every list it held before has been freed once; after the object is
\* destroyed every cell it ever held has been freed exactly once.
C9_SetterFreesPrevious ==
    \A k \in DOMAIN params :
        LET p == params[k].ptr
            mine == {q \in DOMAIN heap : heap[q].owner = LfOwner(k)}
            held == Reach(heap, p) \cup {p}
        IN  IF params[k].alive
            THEN /\ heap[p].body.countries_to_balance_count = Len(params[k].installed)
                 /\ getCountriesToBalance(heap, p) = params[k].installed
                 /\ held \subseteq mine
                 /\ \A q \in held : heap[q].frees = 0
                 /\ \A q \in mine \ held : heap[q].frees = 1
            ELSE \A q \in mine : heap[q].frees = 1

C9_Witness ==
    \E k \in DOMAIN params :
        /\ ~params[k].alive
        /\ params[k].sets = 2
        /\ \E q \in DOMAIN heap :
                heap[q].owner = LfOwner(k) /\ heap[q].kind = "char[]" /\ heap[q].body = "DE"
        /\ \A q \in DOMAIN heap : heap[q].owner = LfOwner(k) => heap[q].frees = 1

\* The columns of a table header as the reader of the header finds them: per
\* column its name, type tag, index flag and number of values
ColumnsAt(h, hdr) ==
    [i \in 1..hdr.series_count |->
        LET column == h[hdr.series].body[i]
        IN  [name |-> h[column.name].body, type |-> column.type, index |-> column.index,
             length |-> column.data.length]]

\* The columns the arguments of a create_dataframe call describe
ColumnsOf(a) ==
    [i \in 1..Len(a.columnsNames) |->
        [name |-> a.columnsNames[i], type |-> a.columnsTypes[i],
         index |-> IF a.isIndex[i] THEN 1 ELSE 0, length |-> Len(a.columnsValues[i].vals)]]

\* C11: the dataframe_array the native service receives from create_element
\* has as many entries as the list had tables, entry i shows the column count
\* and the columns (names, tags, row count) of the i-th table of the list,
\* and entries of different tables show different column arrays.
C11_ArrayKeepsOrder ==
    calls.n > 0 =>
        LET c == calls.last[1]
        IN  /\ c.seen.count = Len(c.bs)
            /\ Len(c.seen.tables) = Len(c.bs)
            /\ \A i \in 1..Len(c.bs) :
                    /\ c.seen.tables[i].series_count = Len(builds[c.bs[i]].a.columnsNames)
                    /\ c.seen.tables[i].series = heap[builds[c.bs[i]].df].body.series
                    /\ ColumnsAt(heap, c.seen.tables[i]) = ColumnsOf(builds[c.bs[i]].a)
            /\ \A i, j \in 1..Len(c.bs) :
                    c.bs[i] # c.bs[j] => c.seen.tables[i].series # c.seen.tables[j].series

C11_Witness ==
    /\ calls.n > 0
    /\ calls.last[1].bs = <<1, 2, 3>>
    /\ calls.last[1].seen.count = 3
    /\ [i \in 1..3 |-> Len(builds[i].a.columnsValues[1].vals)] = <<2, 3, 1>>
    /\ [i \in 1..3 |-> calls.last[1].seen.tables[i].series_count] = <<2, 1, 2>>

\* C12 as claimed: when create_element has returned or raised, the header
\* array and the struct of its dataframe_array are released and so is every
\* table that was in the list.
C12_TablesReleasedWithArray ==
    (result.op = "create_element" /\ calls.n > 0) =>
        LET c == calls.last[1]
        IN  /\ \A k \in 1..Len(c.cells) : c.cells[k].frees = 1
            /\ \A i \in 1..Len(c.bs) :
                    \A p \in CellsOf(c.bs[i]) : heap[p].frees = 1

\* C12 as amended: when create_element has returned or raised, the header
\* array and the struct of its dataframe_array, the only cells the call
\* allocated, are released once each by their delete[] and delete; every table
\* of the list is still allocated, all its cells as they were, and stays with
\* the Dataframe object that Python holds.
C12_ArrayReleasedTablesKept ==
    [][calls'.n = calls.n + 1 =>
            LET c == calls'.last[1]
            IN  /\ result'.error = (IF c.thrown THEN "PyPowsyblError" ELSE "none")
                /\ Len(c.cells) = 2
                /\ c.cells[1].kind = "dataframe_array" /\ c.cells[1].frees = 1
                /\ c.cells[1].freedBy = "delete dataframe_array"
                /\ c.cells[2].kind = "dataframe[]" /\ c.cells[2].frees = 1
                /\ c.cells[2].freedBy = "delete[] dataframe"
                /\ \A p \in DOMAIN heap' : heap'[p].frees = 0 => heap'[p].owner.op # "create_element"
                /\ \A i \in 1..Len(c.bs) :
                        /\ builds'[c.bs[i]].alive
                        /\ \A p \in CellsOf(c.bs[i]) : heap'[p] = heap[p] /\ heap'[p].frees = 0]_vars

C12_Witness ==
    /\ result.op = "create_element"
    /\ result.error = "PyPowsyblError"
    /\ calls.last[1].thrown
    /\ Len(calls.last[1].bs) = 2
    /\ \A k \in 1..2 : calls.last[1].cells[k].frees = 1
    /\ \A i \in 1..2 : Live(heap, builds[calls.last[1].bs[i]].df)

\* C13: over any run of create_dataframe calls, create_element calls on the
\* tables built (a table any number of times, in one call or in several) and
\* drops of the tables, no cell of a table (buffer, string, name, column
\* array, header) is freed more than once, none is freed while Python still
\* holds the table, and the release of a dropped table is the one of its own
\* deleter.
C13_ArrayReleaseSparesTables ==
    \A b \in DOMAIN builds :
        \A p \in CellsOf(b) :
            /\ heap[p].frees <= 1
            /\ builds[b].alive => heap[p].frees = 0
            /\ (builds[b].ok /\ ~builds[b].alive) => heap[p].frees = 1

C13_Witness ==
    /\ calls.n = 2
    /\ calls.last[1].bs = <<1, 1>>
    /\ \A k \in 1..2 : calls.last[1].cells[k].frees = 1
    /\ ~builds[1].alive
    /\ Cardinality(CellsOf(1)) >= 5
    /\ \A p \in CellsOf(1) : heap[p].frees = 1

\* C14: while the native call of a long-running binding is in progress, the
\* calling thread does not hold the interpreter lock: the binding released it
\* before the call, so that another thread can take it.
C14_LockReleasedDuringNative ==
    native \in LongRunning => gil # "caller"

\* The numbers of values given for the columns of build b
RowsGiven(b) ==
    {Len(builds[b].a.columnsValues[i].vals) : i \in 1..Len(builds[b].a.columnsValues)}

\* C15 as claimed: the columns of every table create_dataframe returns have
\* the same buffer length, and column specs whose numbers of values differ
\* give an error instead of a table.
C15_EqualRowCounts ==
    \A b \in DOMAIN builds :
        /\ builds[b].ok =>
                \A i, j \in 1..heap[builds[b].df].body.series_count :
                    SeriesOf(heap, b, i).data.length = SeriesOf(heap, b, j).data.length
        /\ Cardinality(RowsGiven(b)) > 1 => ~builds[b].ok

\* C15 as amended: create_dataframe does not compare the row counts of the
\* columns and raises no error over them: the table it returns has, for every
\* column of tag 0..3, the buffer length of the number of values given for
\* that column, equal across columns only if the caller gave equally many
\* values; a column of another tag has no buffer length assigned.
C15_RowCountsAsGiven ==
    \A b \in DOMAIN builds :
        /\ builds[b].ok
        /\ result.error = "none"
        /\ \A i \in 1..Len(builds[b].a.columnsNames) :
                IF builds[b].a.columnsTypes[i] \in Supported
                THEN SeriesOf(heap, b, i).data.length = Len(builds[b].a.columnsValues[i].vals)
                ELSE SeriesOf(heap, b, i).data = NewSeries.data

C15_Witness ==
    \E b \in DOMAIN builds :
        /\ builds[b].ok
        /\ heap[builds[b].df].body.series_count = 2
        /\ SeriesOf(heap, b, 1).data.length = 2
        /\ SeriesOf(heap, b, 2).data.length = 1

\* C16: every column of every table create_dataframe returns has a name that
\* is not empty and that no other column of the table has, and a column spec
\* with an empty name gives an error instead of a column.
C16_NamesValidated ==
    \A b \in DOMAIN builds :
        LET names == builds[b].a.columnsNames
        IN  /\ builds[b].ok =>
                    /\ \A i \in 1..Len(names) : names[i] # ""
                    /\ \A i, j \in 1..Len(names) : names[i] = names[j] => i = j
            /\ (\E i \in 1..Len(names) : names[i] = "") => ~builds[b].ok

\* C17: create_dataframe returns, for n column specs, a table of series_count
\* n whose column i carries the name, the type tag, the index flag (0 or 1)
\* and, as buffer length, the number of values of the i-th spec.
C17_OneColumnPerSpec ==
    \A b \in DOMAIN builds :
        /\ builds[b].ok
        /\ heap[builds[b].df].body.series_count = Len(builds[b].a.columnsNames)
        /\ ColumnsAt(heap, heap[builds[b].df].body) = ColumnsOf(builds[b].a)

\* C18: the dataframe_array of a create_element call holds copies of the
\* headers only: entry i has the series pointer and count of the i-th table of
\* the list, the call allocates the struct and the header array and nothing
\* else, and when it is over every cell allocated before it (headers, column
\* arrays, names, buffers) is as it was.
C18_HeadersCopiedOnly ==
    [][calls'.n = calls.n + 1 =>
            LET c == calls'.last[1]
            IN  /\ \A i \in 1..Len(c.bs) :
                        /\ c.seen.tables[i] = heap[builds[c.bs[i]].df].body
                        /\ c.seen.tables[i].series = heap'[builds[c.bs[i]].df].body.series
                        /\ Live(heap', c.seen.tables[i].series)
                        /\ \A k \in 1..c.seen.tables[i].series_count :
                                Live(heap', heap'[c.seen.tables[i].series].body[k].data.ptr)
                /\ {c.cells[k].kind : k \in 1..Len(c.cells)} = {"dataframe_array", "dataframe[]"}
                /\ Len(c.cells) = 2
                /\ \A p \in DOMAIN heap : heap'[p] = heap[p]
                /\ builds' = builds]_vars

C18_Witness ==
    /\ calls.n > 0
    /\ calls.last[1].bs = <<1>>
    /\ builds[1].a = ScenarioTable
    /\ builds[1].alive
    /\ calls.last[1].seen.tables[1].series = heap[builds[1].df].body.series
    /\ ViewData(heap, SeriesData(heap, SeriesOf(heap, 1, 2))) = <<Double_1_05, Double_0_98>>

\* The deallocation that goes with an allocation
Counterpart(by) ==
    CASE by = "strdup" -> "free"
      [] by = "new dataframe" -> "delete dataframe"
      [] by = "new[] series" -> "delete[] series"
      [] by = "copyVectorDouble" -> "delete[] double"
      [] by = "copyVectorInt" -> "delete[] int"
      [] by = "copyVectorStringToCharPtrPtr" -> "deleteCharPtrPtr"

\* C19: every cell allocated while a table was built and released since was
\* released by the deallocation that goes with its allocation.
C19_MatchingDeallocators ==
    \A b \in DOMAIN builds :
        \A p \in CellsOf(b) :
            heap[p].frees > 0 => heap[p].freedBy = Counterpart(heap[p].by)

===========================================================================
